---- MODULE Spec2Model ----
(***************************************************************************)
(* Model of the nwcli interactive pager (pkg/tui/model.go): the Model      *)
(* struct, its Update handler and the scroll helpers.                      *)
(*                                                                         *)
(* A string is represented by the number of "\n" it contains               *)
(* (strings.Count(s, "\n")); the empty string is 0.  An article is         *)
(* represented by the newline count of the document the renderer returns   *)
(* for it.                                                                 *)
(*                                                                         *)
(* renderArticle has a value receiver: its assignment                      *)
(* m.viewport.content = rendered (model.go:398) is made on a copy of the   *)
(* Model and is gone when View returns.  No branch of Update assigns       *)
(* viewport.content, so the field keeps the value NewModel leaves in it,   *)
(* the empty string, and the scroll helpers measure that.                  *)
(*                                                                         *)
(* lastMsg and prev record the message of the last Update call and the     *)
(* Model it was called on.                                                 *)
(*                                                                         *)
(* Spec is the event loop of the running program; SpecLaunch is LaunchTUI  *)
(* (pkg/tui/pager.go) around it; SpecVariants runs the basic variant of    *)
(* the pager beside the mouse-enhanced one; SpecFuncs applies the pure     *)
(* functions (ShouldUsePager, formatTimeAgo, renderArticle,                *)
(* organizeDigestArticles) to inputs drawn from bounded sets.              *)
(***************************************************************************)
EXTENDS Integers, Sequences, FiniteSets, TLC

\* ------------------------------------------------------------------ bounds
MaxItems == 2
MaxOffset == 24
MaxNegOffset == 4
MaxUnits == 8
MaxDigest == 4
MaxLimit == 3

\* newline counts of the rendered documents the articles are drawn from
LineCounts == {30}
\* terminal sizes <<Width, Height>> a resize event may carry
Sizes == {<<40, 3>>, <<120, 10>>, <<80, 40>>}
\* terminal rows a left-click may carry
ClickRows == {5, 6, 11, 12, 18}

\* ------------------------------------------------------- program constants
IndexView == "IndexView"
ArticleView == "ArticleView"
headerHeight == 6
itemRowHeight == 6
initWindowWidth == 80
initWindowHeight == 24
chromeReserve == 4
pageReserve == 2

Keys == {"q", "ctrl+c", "h", "?", "esc", "enter", "up", "k", "down", "j",
         "pgup", "pgdown", "home", "g", "end", "G", "x"}
\* mouse events: wheel and right-button presses, a left-button release, and
\* left-button presses on the rows of ClickRows
MouseMsgs ==
    {[type |-> "MouseMsg", action |-> "press", button |-> b, Y |-> 0] :
        b \in {"wheelUp", "wheelDown", "right"}}
    \cup {[type |-> "MouseMsg", action |-> "release", button |-> "left", Y |-> 6]}
    \cup {[type |-> "MouseMsg", action |-> "press", button |-> "left", Y |-> y] :
        y \in ClickRows}

\* m, cmd: the Model and the command of the running program; lastMsg, prev:
\* the last message and the Model it was applied to; launch: the progress of
\* LaunchTUI; call: a call of one of the package's pure functions; basic: the
\* Model of the basic variant of the pager when it is run beside m
VARIABLES m, cmd, lastMsg, prev, launch, call, basic
vars == <<m, cmd, lastMsg, prev, launch, call, basic>>

\* ------------------------------------------------------------------- types
Article == [rendered : LineCounts]

RECURSIVE SeqsUpTo(_, _)
SeqsUpTo(S, n) ==
    IF n = 0 THEN {<<>>}
    ELSE LET shorter == SeqsUpTo(S, n - 1)
         IN  shorter \cup {Append(s, x) : s \in {t \in shorter : Len(t) = n - 1}, x \in S}

ArticleLists == SeqsUpTo(Article, MaxItems)

\* --------------------------------------------------------------- NewModel
NewModel(articles) ==
    [ articles      |-> articles,
      currentView   |-> IndexView,
      selectedIndex |-> IF Len(articles) = 0 THEN 0 - 1 ELSE 0,
      viewport      |-> [content |-> 0, scrollOffset |-> 0, height |-> 0],
      showHelp      |-> FALSE,
      windowWidth   |-> initWindowWidth,
      windowHeight  |-> initWindowHeight ]

\* ---------------------------------------------------------- scroll helpers

\* updateViewport that recomputes the height but forgets to reset the offset
updateViewportKeepsOffset(mm) ==
    IF mm.currentView = ArticleView
    THEN [mm EXCEPT !.viewport.height = mm.windowHeight - chromeReserve]
    ELSE mm

\* updateViewport that resets the offset but does not derive the height
updateViewportKeepsHeight(mm) ==
    IF mm.currentView = ArticleView
    THEN [mm EXCEPT !.viewport.scrollOffset = 0]
    ELSE mm
updateViewport(mm) ==
    IF mm.currentView = ArticleView
    THEN [mm EXCEPT !.viewport.scrollOffset = 0,
                    !.viewport.height = mm.windowHeight - chromeReserve]
    ELSE mm

scrollUp(mm) ==
    IF mm.viewport.scrollOffset > 0
    THEN [mm EXCEPT !.viewport.scrollOffset = @ - 1]
    ELSE mm

scrollDown(mm) ==
    LET lines == mm.viewport.content
        maxScroll == lines - mm.viewport.height + 1
    IN  IF maxScroll > 0 /\ mm.viewport.scrollOffset < maxScroll
        THEN [mm EXCEPT !.viewport.scrollOffset = @ + 1]
        ELSE mm

pageUp(mm) ==
    LET off == mm.viewport.scrollOffset - (mm.viewport.height - pageReserve)
    IN  [mm EXCEPT !.viewport.scrollOffset = IF off < 0 THEN 0 ELSE off]

pageDown(mm) ==
    LET lines == mm.viewport.content
        maxScroll == lines - mm.viewport.height + 1
        off == mm.viewport.scrollOffset + (mm.viewport.height - pageReserve)
    IN  [mm EXCEPT !.viewport.scrollOffset =
                       IF maxScroll > 0 /\ off > maxScroll THEN maxScroll ELSE off]

\* ------------------------------------------------------ Update: the cases

\* windowSize that stores the dimensions but leaves the viewport height alone
windowSizeKeepsHeight(mm, w, h) ==
    [mm EXCEPT !.windowWidth = w,
               !.windowHeight = h]
windowSize(mm, w, h) ==
    [mm EXCEPT !.windowWidth = w,
               !.windowHeight = h,
               !.viewport.height = h - chromeReserve]

wheelUp(mm) ==
    IF mm.currentView = IndexView
    THEN IF mm.selectedIndex > 0
         THEN [mm EXCEPT !.selectedIndex = @ - 1]
         ELSE mm
    ELSE scrollUp(mm)


\* wheelDown that moves the selection without looking at the list length
wheelDownNoClamp(mm) ==
    IF mm.currentView = IndexView
    THEN [mm EXCEPT !.selectedIndex = @ + 1]
    ELSE scrollDown(mm)
wheelDown(mm) ==
    IF mm.currentView = IndexView
    THEN IF mm.selectedIndex < Len(mm.articles) - 1
         THEN [mm EXCEPT !.selectedIndex = @ + 1]
         ELSE mm
    ELSE scrollDown(mm)


\* leftClick with an off-by-one upper bound on the clicked index
leftClickOffByOne(mm, y) ==
    IF mm.currentView = IndexView /\ Len(mm.articles) > 0
    THEN IF y >= headerHeight
         THEN LET clickedIndex == (y - headerHeight) \div itemRowHeight
              IN  IF clickedIndex >= 0 /\ clickedIndex <= Len(mm.articles)
                  THEN updateViewport([mm EXCEPT !.selectedIndex = clickedIndex,
                                                 !.currentView = ArticleView])
                  ELSE mm
         ELSE mm
    ELSE mm
leftClick(mm, y) ==
    IF mm.currentView = IndexView /\ Len(mm.articles) > 0
    THEN IF y >= headerHeight
         THEN LET clickedIndex == (y - headerHeight) \div itemRowHeight
              IN  IF clickedIndex >= 0 /\ clickedIndex < Len(mm.articles)
                  THEN updateViewport([mm EXCEPT !.selectedIndex = clickedIndex,
                                                 !.currentView = ArticleView])
                  ELSE mm
         ELSE mm
    ELSE mm


\* mouseMsg whose left-click branch lacks the test Y >= headerHeight; the
\* division truncates toward zero as Go's does
mouseMsgNoHeaderCheck(mm, msg) ==
    IF msg.action = "press"
    THEN CASE msg.button = "wheelUp"   -> wheelUp(mm)
           [] msg.button = "wheelDown" -> wheelDown(mm)
           [] msg.button = "left"      ->
                IF mm.currentView = IndexView /\ Len(mm.articles) > 0
                THEN LET d == msg.Y - headerHeight
                         clickedIndex == IF d >= 0 THEN d \div itemRowHeight
                                         ELSE 0 - ((0 - d) \div itemRowHeight)
                     IN  IF clickedIndex >= 0 /\ clickedIndex < Len(mm.articles)
                         THEN updateViewport([mm EXCEPT !.selectedIndex = clickedIndex,
                                                        !.currentView = ArticleView])
                         ELSE mm
                ELSE mm
           [] OTHER                    -> mm
    ELSE mm
mouseMsg(mm, msg) ==
    IF msg.action = "press"
    THEN CASE msg.button = "wheelUp"   -> wheelUp(mm)
           [] msg.button = "wheelDown" -> wheelDown(mm)
           [] msg.button = "left"      -> leftClick(mm, msg.Y)
           [] OTHER                    -> mm
    ELSE mm


\* keyHelp that switches the help text on instead of toggling it
keyHelpSetsOn(mm) == [mm EXCEPT !.showHelp = TRUE]
keyHelp(mm) == [mm EXCEPT !.showHelp = ~ @]


\* keyEsc that also resets the selection when going back
keyEscResetsSelection(mm) ==
    IF mm.currentView = ArticleView
    THEN updateViewport([mm EXCEPT !.currentView = IndexView, !.selectedIndex = 0])
    ELSE mm
keyEsc(mm) ==
    IF mm.currentView = ArticleView
    THEN updateViewport([mm EXCEPT !.currentView = IndexView])
    ELSE mm

keyEnter(mm) ==
    IF mm.currentView = IndexView /\ Len(mm.articles) > 0 /\ mm.selectedIndex >= 0
    THEN updateViewport([mm EXCEPT !.currentView = ArticleView])
    ELSE mm


\* keyUp that wraps from the first item to the last
keyUpWraps(mm) ==
    IF mm.currentView = IndexView
    THEN IF mm.selectedIndex > 0
         THEN [mm EXCEPT !.selectedIndex = @ - 1]
         ELSE [mm EXCEPT !.selectedIndex = Len(mm.articles) - 1]
    ELSE scrollUp(mm)
keyUp(mm) ==
    IF mm.currentView = IndexView
    THEN IF mm.selectedIndex > 0
         THEN [mm EXCEPT !.selectedIndex = @ - 1]
         ELSE mm
    ELSE scrollUp(mm)


\* keyDown with an off-by-one bound on the selection
keyDownOffByOne(mm) ==
    IF mm.currentView = IndexView
    THEN IF mm.selectedIndex < Len(mm.articles)
         THEN [mm EXCEPT !.selectedIndex = @ + 1]
         ELSE mm
    ELSE scrollDown(mm)
keyDown(mm) ==
    IF mm.currentView = IndexView
    THEN IF mm.selectedIndex < Len(mm.articles) - 1
         THEN [mm EXCEPT !.selectedIndex = @ + 1]
         ELSE mm
    ELSE scrollDown(mm)


\* keyHome that moves the selection to the first item in either view
keyHomeAlwaysSelects(mm) ==
    IF mm.currentView = IndexView
    THEN [mm EXCEPT !.selectedIndex = 0]
    ELSE [mm EXCEPT !.selectedIndex = 0, !.viewport.scrollOffset = 0]
keyHome(mm) ==
    IF mm.currentView = IndexView
    THEN [mm EXCEPT !.selectedIndex = 0]
    ELSE [mm EXCEPT !.viewport.scrollOffset = 0]

keyEnd(mm) ==
    IF mm.currentView = IndexView
    THEN [mm EXCEPT !.selectedIndex = Len(mm.articles) - 1]
    ELSE LET lines == mm.viewport.content
             maxScroll == lines - mm.viewport.height + 1
         IN  IF maxScroll > 0
             THEN [mm EXCEPT !.viewport.scrollOffset = maxScroll]
             ELSE mm


\* quitKey that also treats esc as quit
quitKeyWithEsc(key) == key \in {"q", "ctrl+c", "esc"}
quitKey(key) == key \in {"q", "ctrl+c"}

keyMsg(mm, key) ==
    CASE key \in {"h", "?"}    -> keyHelp(mm)
      [] key = "esc"           -> keyEsc(mm)
      [] key = "enter"         -> keyEnter(mm)
      [] key \in {"up", "k"}   -> keyUp(mm)
      [] key \in {"down", "j"} -> keyDown(mm)
      [] key = "pgup"          -> pageUp(mm)
      [] key = "pgdown"        -> pageDown(mm)
      [] key \in {"home", "g"} -> keyHome(mm)
      [] key \in {"end", "G"}  -> keyEnd(mm)
      [] OTHER                 -> mm

\* Update returns the new model and the command ("Quit" or "nil")
Update(mm, msg) ==
    CASE msg.type = "WindowSizeMsg" ->
            [model |-> windowSize(mm, msg.Width, msg.Height), cmd |-> "nil"]
      [] msg.type = "MouseMsg" ->
            [model |-> mouseMsg(mm, msg), cmd |-> "nil"]
      [] msg.type = "KeyMsg" ->
            IF quitKey(msg.key)
            THEN [model |-> mm, cmd |-> "Quit"]
            ELSE [model |-> keyMsg(mm, msg.key), cmd |-> "nil"]
      [] OTHER -> [model |-> mm, cmd |-> "nil"]

\* ------------------------------------------------------------ the program
NoMsg == [type |-> "none"]

\* ------------------------------------------------------------------- View
\* A frame is a record: its kind, the indices of m.articles read while
\* composing it, its footer and, for the article frame, the document shown
\* (which text, how many "\n") and the visible slice [start, end).  A frame
\* of kind "panic" stands for the run-time panic of an out-of-range index or
\* slice expression, in which case View returns nothing.

\* newline count of the markdown document renderArticle assembles
\* (model.go:360-390) for an article without categories and image and with a
\* one-line description: title 2, source 1, published 1, URL 2, rule 2,
\* description 2
markdownDoc(article) == 10

\* pairs <<s, d>>, s <= 60, d <= 40, for which the float64 computation
\* s / d * 100 falls just below the integer 100 * s / d, so that the
\* conversion to int gives one less
floatShort ==
    {<<23, 5>>, <<41, 5>>, <<46, 5>>, <<51, 5>>, <<23, 10>>, <<41, 10>>,
     <<46, 10>>, <<51, 10>>, <<23, 20>>, <<41, 20>>, <<46, 20>>,
     <<51, 20>>, <<29, 25>>, <<57, 25>>, <<58, 25>>, <<46, 40>>}

\* int(float64(start) / float64(d) * 100), for d > 0 and start >= 0
percentOf(start, d) ==
    IF <<start, d>> \in floatShort
    THEN ((100 * start) \div d) - 1
    ELSE (100 * start) \div d

renderEmpty(mm) ==
    [kind |-> "empty", reads |-> {}, footer |-> "Press 'q' to quit"]

indexFooter(mm) ==
    IF mm.showHelp THEN "index help" ELSE "index keys"

renderIndex(mm) ==
    IF Len(mm.articles) = 0
    THEN [kind |-> "index without articles", reads |-> {},
          footer |-> "Press 'q' to quit"]
    ELSE [kind |-> "index", reads |-> 0..(Len(mm.articles) - 1),
          selected |-> mm.selectedIndex, footer |-> indexFooter(mm)]

\* mm is renderArticle's copy of the Model, whose viewport.content holds the
\* document named by doc
renderScrollableContent(mm, doc) ==
    LET lines  == mm.viewport.content + 1
        start0 == mm.viewport.scrollOffset
        end0   == start0 + mm.viewport.height - 3
        start1 == IF start0 < 0 THEN 0 ELSE start0
        end1   == IF end0 > lines THEN lines ELSE end0
        start2 == IF start1 >= end1
                  THEN (IF end1 - 1 < 0 THEN 0 ELSE end1 - 1)
                  ELSE start1
        scrollPercent ==
            IF lines > mm.viewport.height
            THEN percentOf(start2, lines - mm.viewport.height)
            ELSE 0
    IN  IF start2 < lines /\ (end1 < start2 \/ end1 < 0)
        THEN [kind |-> "panic", reads |-> {}]
        ELSE [kind |-> "article", reads |-> {mm.selectedIndex},
              doc |-> doc, docLines |-> mm.viewport.content,
              start |-> start2, end |-> end1,
              footer |-> IF mm.showHelp THEN <<"article help">>
                         ELSE <<"percent", scrollPercent>>]

\* renderErr: the renderer returns an error for the assembled document
renderArticle(mm, renderErr) ==
    IF mm.selectedIndex >= Len(mm.articles)
    THEN [kind |-> "error", reads |-> {}]
    ELSE IF mm.selectedIndex < 0
    THEN [kind |-> "panic", reads |-> {mm.selectedIndex}]
    ELSE LET article == mm.articles[mm.selectedIndex + 1]
             md == markdownDoc(article)
         IN  IF renderErr
             THEN renderScrollableContent([mm EXCEPT !.viewport.content = md],
                                          "markdown")
             ELSE renderScrollableContent(
                      [mm EXCEPT !.viewport.content = article.rendered], "styled")


\* View that looks at the view before it looks at the list
ViewDispatchFirst(mm, renderErr) ==
    IF mm.currentView = ArticleView
    THEN renderArticle(mm, renderErr)
    ELSE renderIndex(mm)
View(mm, renderErr) ==
    IF Len(mm.articles) = 0
    THEN renderEmpty(mm)
    ELSE IF mm.currentView = ArticleView
         THEN renderArticle(mm, renderErr)
         ELSE renderIndex(mm)


\* the number of calls of m.renderer.Render (model.go:392) View makes while
\* composing the frame of mm: renderArticle assembles the markdown document
\* and hands it to the renderer each time it is called
rendererCalls(mm) ==
    IF Len(mm.articles) = 0 THEN 0
    ELSE IF mm.currentView = ArticleView
         THEN (IF mm.selectedIndex >= Len(mm.articles) \/ mm.selectedIndex < 0
               THEN 0 ELSE 1)
         ELSE 0
\* View returned a frame for mm, whatever the renderer answered
frameProduced(mm) == \A e \in BOOLEAN : View(mm, e).kind # "panic"

\* ------------------------------------------------------------- LaunchTUI
\* An error value is a sequence of strings, the messages from the outermost
\* wrapper to the cause; <<>> is nil.
RendererErrs == {<<>>, <<"no such style">>}
RunErrs == {<<>>, <<"program was killed">>}

\* the error NewModel returns when glamour.NewTermRenderer returned rendererErr
NewModelErr(rendererErr) ==
    IF rendererErr # <<>>
    THEN <<"failed to create renderer">> \o rendererErr
    ELSE <<>>

\* LaunchTUI that starts the program whatever NewModel returned
launchStartIgnoresErr(rendererErr) ==
    [pc |-> "Run", started |-> TRUE, rendererErr |-> rendererErr,
     runErr |-> <<>>, err |-> <<>>]
\* LaunchTUI up to tea.NewProgram: pc is where LaunchTUI stands, started
\* whether the program was created, err the error returned
launchStart(rendererErr) ==
    IF NewModelErr(rendererErr) # <<>>
    THEN [pc |-> "returned", started |-> FALSE, rendererErr |-> rendererErr,
          runErr |-> <<>>,
          err |-> <<"failed to create TUI model">> \o NewModelErr(rendererErr)]
    ELSE [pc |-> "Run", started |-> TRUE, rendererErr |-> rendererErr,
          runErr |-> <<>>, err |-> <<>>]

\* LaunchTUI from the return of p.Run, which reported runErr
launchReturn(l, runErr) ==
    [l EXCEPT !.pc = "returned", !.runErr = runErr, !.err = runErr]

\* the program has been constructed and p.Run is delivering messages
Running == launchStart(<<>>)
NoCall == [fn |-> "none"]
\* the basic variant is not part of the run
NotRun == "not run"

Init ==
    /\ \E articles \in ArticleLists : m = NewModel(articles)
    /\ cmd = "nil"
    /\ lastMsg = NoMsg
    /\ prev = m
    /\ launch = Running
    /\ call = NoCall
    /\ basic = NotRun

\* one iteration of the event loop: the message is handed to Update and the
\* frame of the new Model is composed before the next message is taken; the
\* loop ends once Update has returned the Quit command, or when View
\* panicked instead of returning the frame
Accepting ==
    /\ launch.pc = "Run"
    /\ cmd = "nil"
    /\ frameProduced(m)

Deliver(msg) ==
    /\ LET r == Update(m, msg)
       IN  /\ r.model.viewport.scrollOffset \in (0 - MaxNegOffset)..MaxOffset
           /\ m' = r.model
           /\ cmd' = r.cmd
    /\ lastMsg' = msg
    /\ prev' = m
    /\ UNCHANGED <<launch, call, basic>>

WindowSizeMsg ==
    /\ Accepting
    /\ \E s \in Sizes :
          Deliver([type |-> "WindowSizeMsg", Width |-> s[1], Height |-> s[2]])

MouseMsg ==
    /\ Accepting
    /\ \E msg \in MouseMsgs : Deliver(msg)

KeyMsg ==
    /\ Accepting
    /\ \E k \in Keys : Deliver([type |-> "KeyMsg", key |-> k])

Next == WindowSizeMsg \/ MouseMsg \/ KeyMsg

Spec == Init /\ [][Next]_vars


\* ------------------------------------------------- LaunchTUI as a process
NotLaunched == [pc |-> "LaunchTUI", started |-> FALSE, rendererErr |-> <<>>,
                runErr |-> <<>>, err |-> <<>>]

InitLaunch ==
    /\ m = "nil"
    /\ cmd = "nil"
    /\ lastMsg = NoMsg
    /\ prev = "nil"
    /\ launch = NotLaunched
    /\ call = NoCall
    /\ basic = NotRun

\* LaunchTUI calls NewModel and, unless that failed, creates the program
LaunchStart ==
    /\ launch.pc = "LaunchTUI"
    /\ \E articles \in ArticleLists, rendererErr \in RendererErrs :
          /\ launch' = launchStart(rendererErr)
          /\ IF launch'.started
             THEN m' = NewModel(articles) /\ prev' = NewModel(articles)
             ELSE UNCHANGED <<m, prev>>
    /\ UNCHANGED <<cmd, lastMsg, call, basic>>

\* p.Run returns: without error once Update has returned Quit, with an error
\* of the driver at any time
RunReturns ==
    /\ launch.pc = "Run"
    /\ \E runErr \in RunErrs :
          /\ runErr = <<>> => cmd = "Quit"
          /\ launch' = launchReturn(launch, runErr)
    /\ UNCHANGED <<m, cmd, lastMsg, prev, call, basic>>

NextLaunch == LaunchStart \/ WindowSizeMsg \/ MouseMsg \/ KeyMsg \/ RunReturns

SpecLaunch == InitLaunch /\ [][NextLaunch]_vars

\* --------------------------------------------------------- ShouldUsePager
\* the result of os.Stdout.Stat(): an error, or the mode bits of the file
FileModes == SUBSET {"ModeDevice", "ModeCharDevice", "ModeNamedPipe"}
StdoutStats == [err : BOOLEAN, mode : FileModes]
\* NWCLI_NO_PAGER: <<>> when unset, else <<value>>
EnvValues == {<<>>, <<"">>, <<"1">>, <<"0">>}

Getenv(env) == IF env = <<>> THEN "" ELSE env[1]

isTerminal(stat) ==
    IF stat.err THEN FALSE ELSE "ModeCharDevice" \in stat.mode

\* ShouldUsePager without the test of NWCLI_NO_PAGER
ShouldUsePagerIgnoresEnv(noPager, stat, env) ==
    IF noPager THEN FALSE
    ELSE IF ~ isTerminal(stat) THEN FALSE
    ELSE TRUE
ShouldUsePager(noPager, stat, env) ==
    IF noPager THEN FALSE
    ELSE IF ~ isTerminal(stat) THEN FALSE
    ELSE IF Getenv(env) # "" THEN FALSE
    ELSE TRUE

\* ---------------------------------------------------------- formatTimeAgo
\* durations are in milliseconds; the result is <<"just now">>, <<"date">>
\* (the absolute date) or <<n, words>> for the digits of n followed by words
Millisecond == 1
Second == 1000
Minute == 60000
Hour == 3600000

\* formatTimeAgo that forgets the singular of the hour
formatTimeAgoPluralHours(diff) ==
    IF diff < Minute THEN <<"just now">>
    ELSE IF diff < Hour
    THEN LET minutes == diff \div Minute
         IN  IF minutes = 1 THEN <<1, "minute ago">> ELSE <<minutes, "minutes ago">>
    ELSE IF diff < 24 * Hour
    THEN LET hours == diff \div Hour
         IN  <<hours, "hours ago">>
    ELSE IF diff < 7 * 24 * Hour
    THEN LET days == (diff \div Hour) \div 24
         IN  IF days = 1 THEN <<1, "day ago">> ELSE <<days, "days ago">>
    ELSE <<"date">>
formatTimeAgo(diff) ==
    IF diff < Minute THEN <<"just now">>
    ELSE IF diff < Hour
    THEN LET minutes == diff \div Minute
         IN  IF minutes = 1 THEN <<1, "minute ago">> ELSE <<minutes, "minutes ago">>
    ELSE IF diff < 24 * Hour
    THEN LET hours == diff \div Hour
         IN  IF hours = 1 THEN <<1, "hour ago">> ELSE <<hours, "hours ago">>
    ELSE IF diff < 7 * 24 * Hour
    THEN LET days == (diff \div Hour) \div 24
         IN  IF days = 1 THEN <<1, "day ago">> ELSE <<days, "days ago">>
    ELSE <<"date">>

\* the elapsed times tried: up to MaxUnits seconds, minutes, hours and days,
\* each exactly, one millisecond short and half a second over, and the two
\* of the scenario (45 s, 90 s)
Durations ==
    {n * u + e : n \in 0..MaxUnits,
                 u \in {Second, Minute, Hour, 24 * Hour},
                 e \in {0 - Millisecond, 0, 500 * Millisecond}}
    \cup {45 * Second, 90 * Second}


\* Models renderArticle may be called on, consistent or not: any list, with
\* selectedIndex from below 0 to beyond the last item
RenderInputs ==
    {[NewModel(articles) EXCEPT !.currentView = ArticleView,
                                !.selectedIndex = i,
                                !.viewport.height = initWindowHeight - chromeReserve] :
        articles \in ArticleLists, i \in (0 - 2)..(MaxItems + 1)}

\* ------------------------------------------------- organizeDigestArticles
\* An article of the digest: its Categories, its Source and its Link
DigestCategories == {<<>>, <<"sports">>}
DigestSources == {"nos", "bbc"}
DigestLinks == {"l1", "l2"}
DigestArticle ==
    [Categories : DigestCategories, Source : DigestSources, Link : DigestLinks]
DigestLists == SeqsUpTo(DigestArticle, MaxDigest)
DigestLimits == 0..MaxLimit
\* the orders in which range may visit the keys of categoryGroups
GroupOrders == {<<"general", "sports">>, <<"sports", "general">>}

\* the key of categoryGroups an article is appended to
categoryOf(article) ==
    IF Len(article.Categories) > 0 THEN article.Categories[1] ELSE "general"

\* categoryGroups[c] after the grouping loop
categoryGroup(articles, c) ==
    LET inGroup(a) == categoryOf(a) = c
    IN  SelectSeq(articles, inGroup)

\* the inner loop over one group, from its i-th article on: count articles
\* taken so far, sourceUsed the uses of each source, selected the result
RECURSIVE takeFromGroup(_, _, _, _, _, _)
takeFromGroup(group, i, count, sourceUsed, maxPerCategory, selected) ==
    IF i > Len(group) \/ count >= maxPerCategory
    THEN selected
    ELSE IF sourceUsed[group[i].Source] < 2
         THEN takeFromGroup(group, i + 1, count + 1,
                            [sourceUsed EXCEPT ![group[i].Source] = @ + 1],
                            maxPerCategory, Append(selected, group[i]))
         ELSE takeFromGroup(group, i + 1, count, sourceUsed,
                            maxPerCategory, selected)

\* the outer loop over the groups, visited in the order keys, from the k-th
\* (selectFromGroups), and the same loop without the test
\* len(selected) >= limit after each group (selectFromGroupsNoBreak)
RECURSIVE selectFromGroups(_, _, _, _, _, _)
RECURSIVE selectFromGroupsNoBreak(_, _, _, _, _, _)
selectFromGroupsNoBreak(articles, keys, k, maxPerCategory, limit, selected) ==
    IF k > Len(keys)
    THEN selected
    ELSE LET taken == takeFromGroup(categoryGroup(articles, keys[k]), 1, 0,
                                    [s \in DigestSources |-> 0],
                                    maxPerCategory, selected)
         IN  selectFromGroupsNoBreak(articles, keys, k + 1, maxPerCategory,
                                     limit, taken)
selectFromGroups(articles, keys, k, maxPerCategory, limit, selected) ==
    IF k > Len(keys)
    THEN selected
    ELSE LET taken == takeFromGroup(categoryGroup(articles, keys[k]), 1, 0,
                                    [s \in DigestSources |-> 0],
                                    maxPerCategory, selected)
         IN  IF Len(taken) >= limit
             THEN taken
             ELSE selectFromGroups(articles, keys, k + 1, maxPerCategory,
                                   limit, taken)

\* the loop that fills the remaining slots, from the i-th article on
RECURSIVE fillRemaining(_, _, _, _, _)
fillRemaining(articles, i, limit, used, selected) ==
    IF i > Len(articles) \/ Len(selected) >= limit
    THEN selected
    ELSE IF articles[i].Link \notin used
         THEN fillRemaining(articles, i + 1, limit,
                            used \cup {articles[i].Link},
                            Append(selected, articles[i]))
         ELSE fillRemaining(articles, i + 1, limit, used, selected)

\* order: the order in which range visits the keys of the map
organizeDigestArticles(articles, limit, order) ==
    IF Len(articles) <= limit
    THEN articles
    ELSE LET present(c) == \E i \in 1..Len(articles) : categoryOf(articles[i]) = c
             keys == SelectSeq(order, present)
             maxPerCategory == IF limit \div Len(keys) < 1 THEN 1
                               ELSE limit \div Len(keys)
             selected == selectFromGroups(articles, keys, 1, maxPerCategory,
                                          limit, <<>>)
         IN  IF Len(selected) < limit
             THEN fillRemaining(articles, 1, limit,
                                {selected[j].Link : j \in 1..Len(selected)},
                                selected)
             ELSE selected
\* ------------------------------------------- the pure functions, as calls
InitFuncs ==
    /\ m = NewModel(<<>>)
    /\ cmd = "nil"
    /\ lastMsg = NoMsg
    /\ prev = m
    /\ launch = NotLaunched
    /\ basic = NotRun
    /\ call \in [fn : {"ShouldUsePager"}, pc : {"called"}, noPager : BOOLEAN,
                 stat : StdoutStats, env : EnvValues]
            \cup [fn : {"formatTimeAgo"}, pc : {"called"}, diff : Durations]
            \cup [fn : {"renderArticle"}, pc : {"called"}, model : RenderInputs,
                  renderErr : BOOLEAN]
            \cup [fn : {"organizeDigestArticles"}, pc : {"called"},
                  articles : DigestLists, limit : DigestLimits,
                  order : GroupOrders]

CallShouldUsePager ==
    /\ call.fn = "ShouldUsePager"
    /\ call.pc = "called"
    /\ call' = [fn |-> call.fn, pc |-> "returned", noPager |-> call.noPager,
                stat |-> call.stat, env |-> call.env,
                ret |-> ShouldUsePager(call.noPager, call.stat, call.env)]
    /\ UNCHANGED <<m, cmd, lastMsg, prev, launch, basic>>

CallFormatTimeAgo ==
    /\ call.fn = "formatTimeAgo"
    /\ call.pc = "called"
    /\ call' = [fn |-> call.fn, pc |-> "returned", diff |-> call.diff,
                ret |-> formatTimeAgo(call.diff)]
    /\ UNCHANGED <<m, cmd, lastMsg, prev, launch, basic>>

CallRenderArticle ==
    /\ call.fn = "renderArticle"
    /\ call.pc = "called"
    /\ call' = [fn |-> call.fn, pc |-> "returned", model |-> call.model,
                renderErr |-> call.renderErr,
                ret |-> renderArticle(call.model, call.renderErr)]
    /\ UNCHANGED <<m, cmd, lastMsg, prev, launch, basic>>

CallOrganizeDigestArticles ==
    /\ call.fn = "organizeDigestArticles"
    /\ call.pc = "called"
    /\ call' = [fn |-> call.fn, pc |-> "returned", articles |-> call.articles,
                limit |-> call.limit, order |-> call.order,
                ret |-> organizeDigestArticles(call.articles, call.limit,
                                               call.order)]
    /\ UNCHANGED <<m, cmd, lastMsg, prev, launch, basic>>

NextFuncs ==
    \/ CallShouldUsePager
    \/ CallFormatTimeAgo
    \/ CallRenderArticle
    \/ CallOrganizeDigestArticles

SpecFuncs == InitFuncs /\ [][NextFuncs]_vars


\* ------------------------------------------- the basic variant of the pager
\* The earlier version of model.go: no mouse events, and NewModel,
\* updateViewport, the enter branch and the slice of renderScrollableContent
\* differ from the mouse-enhanced version.  Its branches for h, up, down,
\* pgup, pgdown, home and end and its scroll helpers have the same text as
\* those of the mouse-enhanced version and are modelled by the same
\* operators.
basicNewModel(articles) ==
    [ articles      |-> articles,
      currentView   |-> IndexView,
      selectedIndex |-> 0,
      viewport      |-> [content |-> 0, scrollOffset |-> 0, height |-> 0],
      showHelp      |-> FALSE,
      windowWidth   |-> initWindowWidth,
      windowHeight  |-> initWindowHeight ]

basicUpdateViewport(mm) ==
    IF mm.currentView = ArticleView
    THEN [mm EXCEPT !.viewport.scrollOffset = 0]
    ELSE mm

basicKeyEsc(mm) ==
    IF mm.currentView = ArticleView
    THEN basicUpdateViewport([mm EXCEPT !.currentView = IndexView])
    ELSE mm

basicKeyEnter(mm) ==
    IF mm.currentView = IndexView /\ Len(mm.articles) > 0
    THEN basicUpdateViewport([mm EXCEPT !.currentView = ArticleView])
    ELSE mm

basicKeyMsg(mm, key) ==
    CASE key \in {"h", "?"}    -> keyHelp(mm)
      [] key = "esc"           -> basicKeyEsc(mm)
      [] key = "enter"         -> basicKeyEnter(mm)
      [] key \in {"up", "k"}   -> keyUp(mm)
      [] key \in {"down", "j"} -> keyDown(mm)
      [] key = "pgup"          -> pageUp(mm)
      [] key = "pgdown"        -> pageDown(mm)
      [] key \in {"home", "g"} -> keyHome(mm)
      [] key \in {"end", "G"}  -> keyEnd(mm)
      [] OTHER                 -> mm

\* the basic Update has no case for mouse messages
basicUpdate(mm, msg) ==
    CASE msg.type = "WindowSizeMsg" ->
            [model |-> windowSize(mm, msg.Width, msg.Height), cmd |-> "nil"]
      [] msg.type = "KeyMsg" ->
            IF quitKey(msg.key)
            THEN [model |-> mm, cmd |-> "Quit"]
            ELSE [model |-> basicKeyMsg(mm, msg.key), cmd |-> "nil"]
      [] OTHER -> [model |-> mm, cmd |-> "nil"]

\* the slice expression lines[start:end] of the basic renderScrollableContent
\* panics for a document of content newlines; the basic layout reserves 2
\* rows where the mouse-enhanced one reserves 3
basicSlicePanics(mm, content) ==
    LET lines  == content + 1
        start0 == mm.viewport.scrollOffset
        end0   == start0 + mm.viewport.height - 2
        start1 == IF start0 < 0 THEN 0 ELSE start0
        end1   == IF end0 > lines THEN lines ELSE end0
        start2 == IF start1 >= end1
                  THEN (IF end1 - 1 < 0 THEN 0 ELSE end1 - 1)
                  ELSE start1
    IN  start2 < lines /\ end1 < start2

\* the basic View returned a frame for mm, whatever the renderer answered
basicFrameProduced(mm) ==
    IF Len(mm.articles) = 0 THEN TRUE
    ELSE IF mm.currentView = ArticleView
         THEN IF mm.selectedIndex >= Len(mm.articles) THEN TRUE
              ELSE IF mm.selectedIndex < 0 THEN FALSE
              ELSE LET article == mm.articles[mm.selectedIndex + 1]
                   IN  /\ ~ basicSlicePanics(mm, article.rendered)
                       /\ ~ basicSlicePanics(mm, markdownDoc(article))
         ELSE TRUE

\* both variants are started on the same list and receive the same key and
\* resize events; basic holds the Model and the command of the basic one
InitVariants ==
    /\ \E articles \in ArticleLists :
          /\ m = NewModel(articles)
          /\ basic = [model |-> basicNewModel(articles), cmd |-> "nil"]
    /\ cmd = "nil"
    /\ lastMsg = NoMsg
    /\ prev = m
    /\ launch = Running
    /\ call = NoCall

DeliverBoth(msg) ==
    /\ Accepting
    /\ basic.cmd = "nil"
    /\ basicFrameProduced(basic.model)
    /\ LET r == Update(m, msg)
           b == basicUpdate(basic.model, msg)
       IN  /\ r.model.viewport.scrollOffset \in (0 - MaxNegOffset)..MaxOffset
           /\ b.model.viewport.scrollOffset \in (0 - MaxNegOffset)..MaxOffset
           /\ m' = r.model
           /\ cmd' = r.cmd
           /\ basic' = b
    /\ lastMsg' = msg
    /\ prev' = m
    /\ UNCHANGED <<launch, call>>

WindowSizeBoth ==
    \E s \in Sizes :
        DeliverBoth([type |-> "WindowSizeMsg", Width |-> s[1], Height |-> s[2]])

KeyBoth ==
    \E k \in Keys : DeliverBoth([type |-> "KeyMsg", key |-> k])

NextVariants == WindowSizeBoth \/ KeyBoth

SpecVariants == InitVariants /\ [][NextVariants]_vars
\* ----------------------------------------------------------------- helpers
Min(a, b) == IF a < b THEN a ELSE b
Max(a, b) == IF a > b THEN a ELSE b

lastKey(K) == lastMsg.type = "KeyMsg" /\ lastMsg.key \in K

validIndex(mm) == 0 <= mm.selectedIndex /\ mm.selectedIndex < Len(mm.articles)

\* newline count of the content renderArticle builds for the open item
\* (articles are indexed from 0 in the program, from 1 here)
renderedContent(mm) == mm.articles[mm.selectedIndex + 1].rendered

\* maxScroll = max(0, L - H + 1), L taken from the content of the open item
specMaxScroll(mm) == Max(0, renderedContent(mm) - mm.viewport.height + 1)

\* the whole pager state of the frame claims
pagerState(mm) ==
    <<mm.currentView, mm.selectedIndex, mm.viewport.scrollOffset, mm.showHelp,
      mm.windowWidth, mm.windowHeight, mm.viewport.height>>


\* ------------------------------------------------------------------ claims

\* C1: with an item open, 0 <= scrollOffset <= maxScroll after every event,
\* maxScroll = max(0, L - H + 1) for the content of the open item.
C1_ScrollOffsetInRange ==
    (m.currentView = ArticleView /\ validIndex(m)) =>
        /\ 0 <= m.viewport.scrollOffset
        /\ m.viewport.scrollOffset <= specMaxScroll(m)

\* C2: selectedIndex is in [0, len(items)-1] for a non-empty list and is -1
\* exactly when the list is empty.
C2_SelectedIndexMatchesItems ==
    IF Len(m.articles) = 0
    THEN m.selectedIndex = 0 - 1
    ELSE m.selectedIndex \in 0..(Len(m.articles) - 1)

\* C3: view == DetailView implies 0 <= selectedIndex < len(items).
C3_DetailHasValidSelection ==
    m.currentView = ArticleView => validIndex(m)

\* C3 witness: a left-click on the second row opened the second item.
C3_Witness ==
    /\ m.currentView = ArticleView
    /\ prev.currentView = IndexView
    /\ lastMsg.type = "MouseMsg"
    /\ m.selectedIndex = 1

\* C4: every transition from ListView to DetailView ends with
\* scrollOffset == 0, whatever the offset was before.
C4_EnterResetsScrollOffset ==
    (prev.currentView = IndexView /\ m.currentView = ArticleView) =>
        m.viewport.scrollOffset = 0

\* C4 witness: enter pressed in ListView while a non-zero offset was left over.
C4_Witness ==
    /\ lastKey({"enter"})
    /\ prev.currentView = IndexView
    /\ prev.viewport.scrollOffset # 0
    /\ m.currentView = ArticleView

\* C5: esc in DetailView sets view to ListView and leaves selectedIndex
\* unchanged; esc in ListView changes nothing.
C5_EscBackKeepsSelection ==
    lastKey({"esc"}) =>
        IF prev.currentView = ArticleView
        THEN m.currentView = IndexView /\ m.selectedIndex = prev.selectedIndex
        ELSE m = prev

\* C5 witness: esc pressed while the second item was open.
C5_Witness ==
    /\ lastKey({"esc"})
    /\ prev.currentView = ArticleView
    /\ prev.selectedIndex = 1

\* C6: with an empty item list, down or enter leaves the whole pager state
\* unchanged.
C6_EmptyListDownEnterNoop ==
    (Len(prev.articles) = 0 /\ lastKey({"down", "enter"})) =>
        pagerState(m) = pagerState(prev)

\* C6 witness: down pressed on a freshly constructed empty pager.
C6_Witness ==
    /\ Len(prev.articles) = 0
    /\ lastKey({"down"})
    /\ prev.selectedIndex = 0 - 1

C8_LineStepClamped ==
    (prev.currentView = ArticleView /\ validIndex(prev)) =>
        /\ lastKey({"down", "j"}) =>
              m.viewport.scrollOffset =
                  Min(prev.viewport.scrollOffset + 1, specMaxScroll(prev))
        /\ lastKey({"up", "k"}) =>
              m.viewport.scrollOffset = Max(prev.viewport.scrollOffset - 1, 0)

\* C9: with an item open, pgdown gives min(scrollOffset + (H - 2), maxScroll)
\* and pgup gives max(scrollOffset - (H - 2), 0).
C9_PageStepClamped ==
    (prev.currentView = ArticleView /\ validIndex(prev)) =>
        /\ lastKey({"pgdown"}) =>
              m.viewport.scrollOffset =
                  Min(prev.viewport.scrollOffset + (prev.viewport.height - 2),
                      specMaxScroll(prev))
        /\ lastKey({"pgup"}) =>
              m.viewport.scrollOffset =
                  Max(prev.viewport.scrollOffset - (prev.viewport.height - 2), 0)

\* C10: in DetailView home/g sets scrollOffset to 0 and end/G sets it to
\* maxScroll = max(0, L - H + 1).
C10_JumpTopBottom ==
    (prev.currentView = ArticleView /\ validIndex(prev)) =>
        /\ lastKey({"home", "g"}) => m.viewport.scrollOffset = 0
        /\ lastKey({"end", "G"}) => m.viewport.scrollOffset = specMaxScroll(prev)

lastPress(b) ==
    lastMsg.type = "MouseMsg" /\ lastMsg.action = "press" /\ lastMsg.button = b

\* C11: in ListView with a non-empty list, down gives
\* min(selectedIndex + 1, len - 1), up gives max(selectedIndex - 1, 0), home/g
\* gives 0 and end/G gives len - 1; none of them changes the view.
C11_ListNavigationClamped ==
    (prev.currentView = IndexView /\ Len(prev.articles) > 0) =>
        /\ lastKey({"down", "j"}) =>
              m.selectedIndex = Min(prev.selectedIndex + 1, Len(prev.articles) - 1)
        /\ lastKey({"up", "k"}) =>
              m.selectedIndex = Max(prev.selectedIndex - 1, 0)
        /\ lastKey({"home", "g"}) => m.selectedIndex = 0
        /\ lastKey({"end", "G"}) => m.selectedIndex = Len(prev.articles) - 1
        /\ lastKey({"down", "j", "up", "k", "home", "g", "end", "G"}) =>
              m.currentView = IndexView

\* C11 witness: up pressed on the first item of a two-item list.
C11_Witness ==
    /\ lastKey({"up"})
    /\ prev.currentView = IndexView
    /\ Len(prev.articles) = 2
    /\ prev.selectedIndex = 0
    /\ m.selectedIndex = 0

\* C12: a left-click at row Y is accepted exactly when the pager is in
\* ListView, Y >= headerHeight and (Y - headerHeight) / itemRowHeight is in
\* [0, len - 1]; an accepted click selects that index and enters DetailView,
\* every other left-click changes nothing.
C12_LeftClickAcceptance ==
    lastPress("left") =>
        LET index == (lastMsg.Y - 6) \div 6
        IN  IF /\ prev.currentView = IndexView
               /\ lastMsg.Y >= 6
               /\ index \in 0..(Len(prev.articles) - 1)
            THEN m.selectedIndex = index /\ m.currentView = ArticleView
            ELSE m = prev /\ cmd = "nil"

\* C12 witness: a click below the last row of a two-item list, ignored.
C12_Witness ==
    /\ lastPress("left")
    /\ lastMsg.Y = 18
    /\ Len(prev.articles) = 2
    /\ prev.currentView = IndexView
    /\ m = prev

\* C13: a wheel-up (wheel-down) press gives exactly the next state the up
\* (down) key gives from the same state.
C13_WheelEqualsKeys ==
    /\ lastPress("wheelUp") =>
          /\ m = Update(prev, [type |-> "KeyMsg", key |-> "up"]).model
          /\ cmd = Update(prev, [type |-> "KeyMsg", key |-> "up"]).cmd
    /\ lastPress("wheelDown") =>
          /\ m = Update(prev, [type |-> "KeyMsg", key |-> "down"]).model
          /\ cmd = Update(prev, [type |-> "KeyMsg", key |-> "down"]).cmd

\* C13 witness: a wheel-down press that moved the selection in ListView.
C13_Witness ==
    /\ lastPress("wheelDown")
    /\ prev.currentView = IndexView
    /\ m.selectedIndex = prev.selectedIndex + 1

footerOf(frame) ==
    IF frame.kind \in {"panic", "error"} THEN <<"no footer">> ELSE <<frame.footer>>

helpMsg(k) == [type |-> "KeyMsg", key |-> k]

\* C14: h or ? flips showHelp and nothing else; pressed twice it restores
\* the state, and with it the footer of the list frame and of the detail
\* frame.
C14_HelpToggleInvolution ==
    /\ lastKey({"h", "?"}) =>
          /\ m = [prev EXCEPT !.showHelp = ~ prev.showHelp]
          /\ m.showHelp # prev.showHelp
          /\ cmd = "nil"
    /\ LET once  == Update(m, helpMsg("h")).model
           twice == Update(once, helpMsg("?")).model
       IN  /\ pagerState(twice) = pagerState(m)
           /\ \A e \in BOOLEAN : footerOf(View(twice, e)) = footerOf(View(m, e))

\* C14 witness: help switched off again while an article frame with a
\* percentage footer is shown.
C14_Witness ==
    /\ lastKey({"?"})
    /\ prev.showHelp
    /\ m.currentView = ArticleView
    /\ View(m, FALSE).kind = "article"
    /\ View(m, FALSE).footer[1] = "percent"

\* C16: with an empty item list View returns the empty-state frame, whatever
\* the view, the selection and the help flag, and reads no item.
C16_EmptyListEmptyFrame ==
    Len(m.articles) = 0 =>
        \A e \in BOOLEAN :
            /\ View(m, e).kind = "empty"
            /\ View(m, e).reads = {}

\* C16 witness: an empty list with selectedIndex 0 and the help flag set.
C16_Witness ==
    /\ Len(m.articles) = 0
    /\ m.selectedIndex = 0
    /\ m.showHelp

\* C17: when the renderer returns an error, the article frame is still
\* produced and shows exactly the assembled markdown document.
C17_RendererErrorFallsBack ==
    (m.currentView = ArticleView /\ validIndex(m)) =>
        LET frame == View(m, TRUE)
        IN  /\ frame.kind = "article"
            /\ frame.doc = "markdown"
            /\ frame.docLines = markdownDoc(m.articles[m.selectedIndex + 1])

\* C15: ShouldUsePager(noPager) is true exactly when noPager is false,
\* standard output is a character device and NWCLI_NO_PAGER is unset or
\* empty; ShouldUsePager(true) is always false.
C15_ShouldUsePagerExact ==
    (call.fn = "ShouldUsePager" /\ call.pc = "returned") =>
        /\ call.ret <=>
              /\ ~ call.noPager
              /\ ~ call.stat.err
              /\ "ModeCharDevice" \in call.stat.mode
              /\ call.env \in {<<>>, <<"">>}
        /\ call.noPager => ~ call.ret

\* C15 witness: a terminal, no flag, NWCLI_NO_PAGER set to the empty string.
C15_Witness ==
    /\ call.fn = "ShouldUsePager"
    /\ call.pc = "returned"
    /\ call.env = <<"">>
    /\ call.ret

\* C18: LaunchTUI returns an error without starting the program when the
\* renderer cannot be constructed; otherwise it starts the program and
\* returns exactly what p.Run reported.
C18_LaunchTUIResult ==
    /\ launch.rendererErr # <<>> =>
          /\ launch.pc = "returned"
          /\ ~ launch.started
          /\ launch.err # <<>>
          /\ lastMsg = NoMsg
    /\ (launch.pc = "returned" /\ launch.rendererErr = <<>>) =>
          /\ launch.started
          /\ launch.err = launch.runErr
    /\ (launch.pc = "Run") => launch.started

\* C18 witness: the renderer could not be constructed.
C18_Witness ==
    /\ launch.pc = "returned"
    /\ launch.rendererErr # <<>>
    /\ launch.err[1] = "failed to create TUI model"

\* C19: formatTimeAgo gives "just now" below a minute, whole minutes below
\* an hour, whole hours below a day, whole days below seven days and the
\* date otherwise, with the singular form exactly when the count is 1.
C19_FormatTimeAgoTable ==
    (call.fn = "formatTimeAgo" /\ call.pc = "returned") =>
        LET d == call.diff
            ago(n, one, many) == IF n = 1 THEN <<1, one>> ELSE <<n, many>>
        IN  /\ d < 60000 => call.ret = <<"just now">>
            /\ (60000 <= d /\ d < 3600000) =>
                  call.ret = ago(d \div 60000, "minute ago", "minutes ago")
            /\ (3600000 <= d /\ d < 86400000) =>
                  call.ret = ago(d \div 3600000, "hour ago", "hours ago")
            /\ (86400000 <= d /\ d < 604800000) =>
                  call.ret = ago(d \div 86400000, "day ago", "days ago")
            /\ 604800000 <= d => call.ret = <<"date">>
            /\ d = 90000 => call.ret = <<1, "minute ago">>
            /\ d = 45000 => call.ret = <<"just now">>

\* C19 witness: one hour and half a second ago.
C19_Witness ==
    /\ call.fn = "formatTimeAgo"
    /\ call.pc = "returned"
    /\ call.diff = 3600500
    /\ call.ret = <<1, "hour ago">>

\* C20: the scroll invariant survives a resize: when it held before a resize
\* in DetailView, 0 <= scrollOffset <= max(0, L - H + 1) holds right after
\* it, for the new height H.
C20_ResizeKeepsOffsetInRange ==
    (/\ lastMsg.type = "WindowSizeMsg"
     /\ prev.currentView = ArticleView
     /\ validIndex(prev)
     /\ 0 <= prev.viewport.scrollOffset
     /\ prev.viewport.scrollOffset <= specMaxScroll(prev)) =>
        /\ 0 <= m.viewport.scrollOffset
        /\ m.viewport.scrollOffset <= specMaxScroll(m)

\* C21: a resize event sets windowWidth and windowHeight to the event's
\* dimensions and viewport.height to the new windowHeight minus the
\* header/footer reservation, in the same transition, and leaves view,
\* selectedIndex, showHelp and the item list unchanged.
C21_ResizeEffect ==
    lastMsg.type = "WindowSizeMsg" =>
        /\ m.windowWidth = lastMsg.Width
        /\ m.windowHeight = lastMsg.Height
        /\ m.viewport.height = lastMsg.Height - chromeReserve
        /\ m.currentView = prev.currentView
        /\ m.selectedIndex = prev.selectedIndex
        /\ m.showHelp = prev.showHelp
        /\ m.articles = prev.articles

\* C21 witness: with an item open and the help text on, a resize changed the
\* window height and with it the viewport height.
C21_Witness ==
    /\ lastMsg.type = "WindowSizeMsg"
    /\ prev.currentView = ArticleView
    /\ prev.showHelp
    /\ prev.windowHeight # lastMsg.Height
    /\ prev.viewport.height # m.viewport.height

\* C22: the content of the open item is built exactly once per entry into
\* DetailView: between one entry and the following back event, no scroll
\* event and no frame production calls the renderer again or rebuilds the
\* content.  The frame of the entry has built the content; the frame composed
\* after any later event of the same stay makes no renderer call.
C22_ContentBuiltOncePerEntry ==
    (/\ lastMsg.type # "none"
     /\ prev.currentView = ArticleView
     /\ m.currentView = ArticleView
     /\ cmd = "nil") =>
        rendererCalls(m) = 0

\* C23: when the detail frame is produced, for every scrollOffset and every
\* viewport height (including heights below the chrome reserve, as after a
\* resize to a very small window), the visible slice [start, end) satisfies
\* 0 <= start < end <= number of content lines: the slice never goes out of
\* range and at least one line is shown (the content always has one).
C23_VisibleSliceInRange ==
    (m.currentView = ArticleView /\ validIndex(m)) =>
        \A e \in BOOLEAN :
            LET frame == View(m, e)
            IN  /\ frame.kind = "article"
                /\ 0 <= frame.start
                /\ frame.start < frame.end
                /\ frame.end <= frame.docLines + 1

\* round(s / d * 100) for d > 0, halves rounded up
roundPercent(s, d) == (200 * s + d) \div (2 * d)

\* the percentage the footer is to show for mm when the document on display
\* has L lines: round(scrollOffset / (L - H) * 100) when L > H, else 0
specPercent(mm, L) ==
    IF L > mm.viewport.height
    THEN roundPercent(mm.viewport.scrollOffset, L - mm.viewport.height)
    ELSE 0

\* C24: the scroll percentage shown in the detail footer is
\* round(scrollOffset / (L - H) * 100) when L > H and 0 otherwise, and it is
\* computed (no division by zero stops the frame) for every L and H.
C24_ScrollPercentFormula ==
    (m.currentView = ArticleView /\ validIndex(m) /\ ~ m.showHelp) =>
        \A e \in BOOLEAN :
            LET frame == View(m, e)
            IN  frame.kind = "article" =>
                    frame.footer = <<"percent", specPercent(m, frame.docLines + 1)>>

\* C25: when the detail frame is rendered with a selectedIndex that is not a
\* valid index into the items (too large or negative), the result is the
\* visible error string in place of the content, and the process does not
\* fail.
C25_InvalidIndexRendersError ==
    (/\ call.fn = "renderArticle"
     /\ call.pc = "returned"
     /\ ~ validIndex(call.model)) =>
        call.ret.kind = "error"

\* C26: the scroll percentage shown in the detail footer is between 0 and 100
\* inclusive in every reachable state, after any sequence of scroll, page,
\* jump and resize events.
C26_ScrollPercentBounded ==
    (m.currentView = ArticleView /\ validIndex(m) /\ ~ m.showHelp) =>
        \A e \in BOOLEAN :
            LET frame == View(m, e)
            IN  frame.kind = "article" =>
                    /\ 0 <= frame.footer[2]
                    /\ frame.footer[2] <= 100

\* C27: while view == DetailView no event changes selectedIndex: up/down,
\* home/end, wheel events, page keys, left-clicks, help toggles and resizes
\* all leave the open item the same, so the item being read changes only
\* after a back event.
C27_DetailKeepsSelection ==
    (lastMsg.type # "none" /\ prev.currentView = ArticleView) =>
        m.selectedIndex = prev.selectedIndex

\* C27 witness: with the second item open, a home key, a wheel event or a
\* left-click on the first row was handled and the item stayed open.
C27_Witness ==
    /\ prev.currentView = ArticleView
    /\ prev.selectedIndex = 1
    /\ m.currentView = ArticleView
    /\ \/ lastKey({"home", "g"})
       \/ lastPress("wheelUp")
       \/ (lastPress("left") /\ lastMsg.Y = headerHeight)

\* C28: in every reachable state with view == DetailView,
\* viewport.height == windowHeight - 4: the height used for scrolling is the
\* one derived from the last known window height, whether the item was
\* opened before or after the first resize event.
C28_DetailHeightDerived ==
    m.currentView = ArticleView =>
        m.viewport.height = m.windowHeight - chromeReserve

\* C28 witness: an item was opened before any resize event, when NewModel's
\* viewport height 0 was still in place.
C28_Witness ==
    /\ prev.currentView = IndexView
    /\ prev.viewport.height = 0
    /\ prev.windowHeight = initWindowHeight
    /\ m.currentView = ArticleView
    /\ m.viewport.height = initWindowHeight - chromeReserve

\* C29: the basic and the mouse-enhanced variants are the same state machine
\* on keyboard input: for every item list and every sequence of key and
\* resize events, both variants have the same view, selectedIndex, showHelp
\* and scrollOffset after each event.
C29_VariantsAgreeOnKeys ==
    lastMsg.type # "none" =>
        /\ basic.model.currentView = m.currentView
        /\ basic.model.selectedIndex = m.selectedIndex
        /\ basic.model.showHelp = m.showHelp
        /\ basic.model.viewport.scrollOffset = m.viewport.scrollOffset

\* C30: organizeDigestArticles(articles, limit) never returns more than limit
\* articles for any limit >= 1, whatever the order in which the category
\* groups are visited, and returns the input list unchanged when
\* len(articles) <= limit.
C30_DigestWithinLimit ==
    (call.fn = "organizeDigestArticles" /\ call.pc = "returned") =>
        /\ call.limit >= 1 => Len(call.ret) <= call.limit
        /\ Len(call.articles) <= call.limit => call.ret = call.articles

\* C30 witness: more categories than the limit allows articles, and a list
\* longer than the limit: the call returned exactly limit articles.
C30_Witness ==
    /\ call.fn = "organizeDigestArticles"
    /\ call.pc = "returned"
    /\ call.limit = 1
    /\ Len(call.articles) > 2
    /\ \E i, j \in 1..Len(call.articles) :
          categoryOf(call.articles[i]) # categoryOf(call.articles[j])
    /\ Len(call.ret) = 1

====
